---- MODULE Spec2Model ----
(***************************************************************************)
(* Distance-band classification of src/app.py: radii parsing, band         *)
(* construction, bucketization, colouring, rendering and tallying.         *)
(*                                                                         *)
(* Numbers.  Radii are Python ints (meters).  Kilometre values are floats; *)
(* a finite float x km is represented by the integer x * UnitsPerKm, NaN   *)
(* and +inf by their own tags, and every comparison goes through FGe/FLt, *)
(* which follow IEEE-754 (a comparison with NaN is false).  Text-input     *)
(* tokens carry a decimal value in units of 1/TokenDen.                    *)
(***************************************************************************)
EXTENDS Integers, Sequences, FiniteSets, TLC

\* ------------------------------------------------------------------ bounds
MaxPts == 2        \* rows of a DataFrame
MaxTokens == 2     \* comma-separated parts of the radii text input
MaxRadii == 2      \* length of a radii list passed by a direct caller
MaxColors == 12    \* the n of a direct call of make_color_palette
MaxGeoPts == 1     \* points of a direct call of haversine_vectorized
MaxCalls == 3      \* calls that follow one another
FloatOne == 1000   \* sines and cosines are multiples of 1/FloatOne
TokenDen == 2      \* a numeric token is a multiple of 1/TokenDen
SubMeter == 2      \* a distance is a multiple of 1/SubMeter meters

UnitsPerKm == 1000 * SubMeter

\* ------------------------------------------------------------------ floats
Fin(n) == [k |-> "fin", v |-> n]
NaN == [k |-> "nan", v |-> 0]
PosInf == [k |-> "inf", v |-> 0]

\* a >= b and a < b on floats (operands: finite, NaN or +inf)
FGe(a, b) ==
    IF a.k = "nan" \/ b.k = "nan" THEN FALSE
    ELSE IF a.k = "inf" THEN TRUE
    ELSE IF b.k = "inf" THEN FALSE
    ELSE a.v >= b.v

FLt(a, b) ==
    IF a.k = "nan" \/ b.k = "nan" THEN FALSE
    ELSE IF a.k = "inf" THEN FALSE
    ELSE IF b.k = "inf" THEN TRUE
    ELSE a.v < b.v

\* Python's round(): to the nearest integer, ties to the even one; n/den >= 0
RoundHalfEven(n, den) ==
    LET q == n \div den
        r == n % den
    IN  IF 2 * r < den THEN q
        ELSE IF 2 * r > den THEN q + 1
        ELSE IF q % 2 = 0 THEN q ELSE q + 1

Range(s) == {s[i] : i \in 1..Len(s)}

RECURSIVE SortedSet(_)
\* sorted(set(...)): the elements of S in ascending order
SortedSet(S) ==
    IF S = {} THEN <<>>
    ELSE LET m == CHOOSE x \in S : \A y \in S : x <= y
         IN  <<m>> \o SortedSet(S \ {m})

RECURSIVE InsertSorted(_, _)
InsertSorted(x, s) ==
    IF s = <<>> THEN <<x>>
    ELSE IF x < Head(s) THEN <<x>> \o s
    ELSE <<Head(s)>> \o InsertSorted(x, Tail(s))

RECURSIVE Sorted(_)
\* sorted(list): ascending, duplicates kept
Sorted(s) == IF s = <<>> THEN <<>> ELSE InsertSorted(Head(s), Sorted(Tail(s)))

\* ------------------------------------------------------- parse_radii_input
DefaultRadii == <<10000, 20000, 30000>>

\* One part of radii_str.split(","), stripped.  "num": float(p) is the finite
\* value v/TokenDen; "empty": p == ""; "junk": float(p) raises ValueError;
\* "nan": float(p) is NaN; "inf": float(p) is +inf, int(round(inf)) raises.
NumToken(v) == [k |-> "num", v |-> v]
OtherToken(kind) == [k |-> kind, v |-> 0]

\* what the loop body appends to radii for part p: nothing or one int
TokenRadii(p) ==
    IF p.k = "num" /\ p.v >= 0 THEN <<RoundHalfEven(p.v, TokenDen)>> ELSE <<>>

RECURSIVE CollectRadii(_)
CollectRadii(parts) ==
    IF parts = <<>> THEN <<>>
    ELSE TokenRadii(Head(parts)) \o CollectRadii(Tail(parts))

\* variant: any part that is neither empty nor a valid number voids the input
parse_radii_input_Strict(parts) ==
    LET radii == SortedSet(Range(CollectRadii(parts)))
        bad == \E i \in 1..Len(parts) :
                  parts[i].k # "empty" /\ TokenRadii(parts[i]) = <<>>
    IN  IF radii = <<>> \/ bad THEN DefaultRadii ELSE radii

\* variant: sorted(radii) without set()
parse_radii_input_NoDedup(parts) ==
    LET radii == Sorted(CollectRadii(parts))
    IN  IF radii = <<>> THEN DefaultRadii ELSE radii

parse_radii_input(parts) ==
    LET radii == SortedSet(Range(CollectRadii(parts)))
    IN  IF radii = <<>> THEN DefaultRadii ELSE radii

\* ----------------------------------------------------- haversine_vectorized
\* Angles are in degrees on a 30-degree grid (np.radians only changes the
\* unit).  np.sin and np.cos return the tabulated value, or a neighbouring
\* one: the last place of a sine or cosine depends on the rounding of the
\* argument and on the maths library.  sin(0) = 0 and cos(0) = 1 are exact,
\* and no result exceeds 1 in magnitude.
Sin60 == (FloatOne * 866025 + 500000) \div 1000000

SinTable ==
    << 0, FloatOne \div 2, Sin60, FloatOne, Sin60, FloatOne \div 2,
       0, -(FloatOne \div 2), -Sin60, -FloatOne, -Sin60, -(FloatOne \div 2) >>

ClampUnit(x) == IF x > FloatOne THEN FloatOne ELSE IF x < -FloatOne THEN -FloatOne ELSE x

\* np.sin of an angle of deg degrees, off by e in the last place
SinF(deg, e) ==
    IF deg = 0 THEN 0 ELSE ClampUnit(SinTable[((deg % 360) \div 30) + 1] + e)

\* np.cos of an angle of deg degrees, off by e in the last place
CosF(deg, e) ==
    IF deg = 0 THEN FloatOne
    ELSE ClampUnit(SinTable[(((deg + 90) % 360) \div 30) + 1] + e)

\* x * y, rounded
MulF(x, y) == RoundHalfEven(x * y, FloatOne)

\* np.sqrt(x) for x >= 0
SqrtF(x) ==
    CHOOSE r \in 0..(2 * FloatOne) :
        r * r <= x * FloatOne /\ x * FloatOne < (r + 1) * (r + 1)

\* np.arcsin(x) for 0 <= x <= 1, in hundredths of a degree: the exact values
\* at 0, 1/2, sin 60 and 1, and in proportion between them
ArcsinF(x) ==
    LET half == FloatOne \div 2
    IN  IF x <= half THEN (x * 3000) \div half
        ELSE IF x <= Sin60 THEN 3000 + ((x - half) * 3000) \div (Sin60 - half)
        ELSE 6000 + ((x - Sin60) * 3000) \div (FloatOne - Sin60)

\* R * pi / 180 in meters, R = 6371.0088 km
MetersPerDegree == 111195

\* the distance of one point; ulp holds the last-place errors of the four
\* sines and cosines.  A negative a makes np.sqrt, and so the result, NaN.
HaversineOne(lat1, lon1, lat2, lon2, ulp) ==
    LET dlat == lat2 - lat1
        dlon == lon2 - lon1
        sin_dlat == SinF(dlat \div 2, ulp.slat)
        sin_dlon == SinF(dlon \div 2, ulp.slon)
        cos1 == CosF(lat1, ulp.c1)
        cos2 == IF lat2 = lat1 THEN cos1 ELSE CosF(lat2, ulp.c2)
        a == MulF(sin_dlat, sin_dlat) + MulF(MulF(cos1, cos2), MulF(sin_dlon, sin_dlon))
    IN  IF a < 0 THEN NaN
        ELSE LET root == SqrtF(a)
                 clamped == IF root > FloatOne THEN FloatOne ELSE root
                 c == 2 * ArcsinF(clamped)
             IN  Fin(((c * MetersPerDegree) \div 100) * (UnitsPerKm \div 1000))

haversine_vectorized(lat1, lon1, lat2_arr, lon2_arr, ulp) ==
    [j \in 1..Len(lat2_arr) |-> HaversineOne(lat1, lon1, lat2_arr[j], lon2_arr[j], ulp)]

\* ---------------------------------------------------- make_bins_from_radii
\* r/1000.0
MetersToKm(r) == Fin((r * UnitsPerKm) \div 1000)

RECURSIVE BinsLoop(_, _)
BinsLoop(radii_km, prev) ==
    IF radii_km = <<>> THEN << <<prev, PosInf>> >>
    ELSE << <<prev, Head(radii_km)>> >> \o BinsLoop(Tail(radii_km), Head(radii_km))

\* variant: the radii are taken in the order given, without sorted()
make_bins_from_radii_Unsorted(radii_meters) ==
    LET radii_km == [i \in 1..Len(radii_meters) |-> MetersToKm(radii_meters[i])]
    IN  BinsLoop(radii_km, Fin(0))

make_bins_from_radii(radii_meters) ==
    LET srt == Sorted(radii_meters)
        radii_km == [i \in 1..Len(srt) |-> MetersToKm(srt[i])]
    IN  BinsLoop(radii_km, Fin(0))

\* ----------------------------------------------------- bucketize_distances
Sentinel == -1

\* variant: mask (dist_km > low) & (dist_km < high)
BucketOf_StrictLow(d, bins) ==
    LET hits == {i \in 1..Len(bins) : FLt(bins[i][1], d) /\ FLt(d, bins[i][2])}
    IN  IF hits = {} THEN Sentinel
        ELSE (CHOOSE i \in hits : \A j \in hits : j <= i) - 1

\* variant: the loop runs over bins[:-1]
BucketOf_LastBandOut(d, bins) ==
    LET hits == {i \in 1..(Len(bins) - 1) : FGe(d, bins[i][1]) /\ FLt(d, bins[i][2])}
    IN  IF hits = {} THEN Sentinel
        ELSE (CHOOSE i \in hits : \A j \in hits : j <= i) - 1

\* variant: mask (dist_km >= low) & (dist_km <= high), the first band kept
BucketOf_TieBelow(d, bins) ==
    LET hits == {i \in 1..Len(bins) : FGe(d, bins[i][1]) /\ FGe(bins[i][2], d)}
    IN  IF hits = {} THEN Sentinel
        ELSE (CHOOSE i \in hits : \A j \in hits : i <= j) - 1

\* the masks are applied in band order, so the last band whose mask holds
\* is the one left in bucket_idxs
BucketOf(d, bins) ==
    LET hits == {i \in 1..Len(bins) : FGe(d, bins[i][1]) /\ FLt(d, bins[i][2])}
    IN  IF hits = {} THEN Sentinel
        ELSE (CHOOSE i \in hits : \A j \in hits : j <= i) - 1

bucketize_distances(dist, bins) ==
    [j \in 1..Len(dist) |-> BucketOf(dist[j], bins)]

\* ------------------------------------------------------ make_color_palette
BasePalette ==
    << "#1a9850", "#fee08b", "#fdae61", "#f46d43", "#d73027",
       "#542788", "#4575b4", "#000000", "#2b8cbe", "#66c2a5" >>

\* variant: base[:n] alone, without the cycling branch
make_color_palette_NoCycle(n) ==
    SubSeq(BasePalette, 1, IF n <= Len(BasePalette) THEN n ELSE Len(BasePalette))

make_color_palette(n) ==
    IF n <= Len(BasePalette) THEN SubSeq(BasePalette, 1, n)
    ELSE [i \in 1..n |-> BasePalette[((i - 1) % Len(BasePalette)) + 1]]

\* -------------------------------------------------- bucket_labels_from_bins
\* f"{x:.2f}": x in hundredths of a km
Fmt2(x) == RoundHalfEven(x.v * 100, UnitsPerKm)

BinLabel(bin) ==
    IF bin[2].k = "inf" THEN [gt |-> TRUE, low |-> Fmt2(bin[1]), high |-> 0]
    ELSE [gt |-> FALSE, low |-> Fmt2(bin[1]), high |-> Fmt2(bin[2])]

bucket_labels_from_bins(bins) == [i \in 1..Len(bins) |-> BinLabel(bins[i])]

\* -------------------------------------------------- add_colored_points_layer
FallbackColor == "#3186cc"

NoLabel == [gt |-> FALSE, low |-> 0, high |-> 0]

\* bucket_idxs[i] for a row label i < len(bucket_idxs) raises IndexError
\* when i < -len(bucket_idxs)
RowRaises(i, idxs) == i < Len(idxs) /\ i < -Len(idxs)

\* int(bucket_idxs[i]) if i < len(bucket_idxs) else -1, i the row's index
\* label: a label >= 0 is a position, a negative one counts from the end
RowBidx(i, idxs) ==
    IF i < Len(idxs)
    THEN (IF i >= 0 THEN idxs[i + 1] ELSE idxs[Len(idxs) + i + 1])
    ELSE -1

\* variant: the guards are bidx < len(...) alone, so -1 indexes from the end
Marker_NoLowerGuard(bidx, fill_colors, labels) ==
    [ bidx |-> bidx,
      fill_color |-> IF bidx < Len(fill_colors) /\ -Len(fill_colors) <= bidx
                     THEN (IF bidx >= 0 THEN fill_colors[bidx + 1]
                           ELSE fill_colors[Len(fill_colors) + bidx + 1])
                     ELSE FallbackColor,
      na |-> ~(bidx < Len(labels) /\ -Len(labels) <= bidx),
      label |-> IF bidx < Len(labels) /\ -Len(labels) <= bidx
                THEN (IF bidx >= 0 THEN labels[bidx + 1]
                      ELSE labels[Len(labels) + bidx + 1])
                ELSE NoLabel ]

\* the marker of one row: its band index, fill colour and popup range
Marker(bidx, fill_colors, labels) ==
    [ bidx |-> bidx,
      fill_color |-> IF 0 <= bidx /\ bidx < Len(fill_colors)
                     THEN fill_colors[bidx + 1] ELSE FallbackColor,
      na |-> ~(0 <= bidx /\ bidx < Len(labels)),
      label |-> IF 0 <= bidx /\ bidx < Len(labels)
                THEN labels[bidx + 1] ELSE NoLabel ]

LayerRaises(index, idxs) == \E r \in 1..Len(index) : RowRaises(index[r], idxs)

LayerMarkers(index, fill_colors, idxs, labels) ==
    [r \in 1..Len(index) |-> Marker(RowBidx(index[r], idxs), fill_colors, labels)]

\* variant: only the bands that hold a point get a key
BucketCounts_SkipEmpty(idxs, labels) ==
    [i \in {b \in 0..(Len(labels) - 1) : \E j \in 1..Len(idxs) : idxs[j] = b} |->
        Cardinality({j \in 1..Len(idxs) : idxs[j] = i})]

\* bucket_counts[i] = np.sum(bucket_idxs == i) for i in range(len(labels))
BucketCounts(idxs, labels) ==
    [i \in 0..(Len(labels) - 1) |->
        Cardinality({j \in 1..Len(idxs) : idxs[j] = i})]

\* ------------------------------------------------------- create_flexible_map
NoStats == [some |-> FALSE, labels |-> <<>>, colors |-> <<>>, counts |-> <<>>]

NoOffice == [present |-> FALSE, has_radii |-> FALSE, radii |-> <<>>]
Office(radii) == [present |-> TRUE, has_radii |-> TRUE, radii |-> radii]
OfficeNoRadii == [present |-> TRUE, has_radii |-> FALSE, radii |-> <<>>]

\* office_marker.get("radii", [10000, 20000, 30000])
OfficeRadii(om) == IF om.has_radii THEN om.radii ELSE DefaultRadii

NoPass ==
    [ branch |-> "none", radii_m |-> <<>>, bins |-> <<>>, bucket_idxs |-> <<>>,
      bucket_labels |-> <<>>, colors |-> <<>>, rendered |-> <<>>,
      bucket_stats |-> NoStats, raised |-> FALSE ]

\* the coloured-points branch (lines 460-495); dist is what
\* haversine_vectorized returned for the rows
ColoredPoints(index, dist, om) ==
    LET rm == OfficeRadii(om)
        bn == make_bins_from_radii(rm)
        bi == bucketize_distances(dist, bn)
        lb == bucket_labels_from_bins(bn)
        cl == make_color_palette(Len(bn))
    IN  IF LayerRaises(index, bi)
        THEN [ NoPass EXCEPT !.branch = "points_colored", !.radii_m = rm,
                 !.bins = bn, !.bucket_idxs = bi, !.bucket_labels = lb,
                 !.colors = cl, !.raised = TRUE ]
        ELSE [ branch |-> "points_colored", radii_m |-> rm, bins |-> bn,
               bucket_idxs |-> bi, bucket_labels |-> lb, colors |-> cl,
               rendered |-> LayerMarkers(index, cl, bi, lb),
               bucket_stats |-> [ some |-> TRUE, labels |-> lb, colors |-> cl,
                                  counts |-> BucketCounts(bi, lb) ],
               raised |-> FALSE ]

create_flexible_map(index, dist, om, mtype, max_points) ==
    IF Len(index) > 0
    THEN IF mtype = "heatmap" \/ Len(index) > max_points
         THEN [NoPass EXCEPT !.branch = "heatmap"]
         ELSE IF om.present
              THEN ColoredPoints(index, dist, om)
              ELSE [NoPass EXCEPT !.branch = "points_simple"]
    ELSE NoPass

\* ----------------------------------------------------------------- main
\* the statistics table (lines 705-739): one row per label, and the total
StatsRows(stats) ==
    [i \in 1..Len(stats.labels) |->
        [ label |-> stats.labels[i], color |-> stats.colors[i],
          count |-> IF (i - 1) \in DOMAIN stats.counts
                    THEN stats.counts[i - 1] ELSE 0 ]]

RECURSIVE SumCounts(_)
SumCounts(rows) ==
    IF rows = <<>> THEN 0 ELSE Head(rows).count + SumCounts(Tail(rows))

\* ================================================================== state
VARIABLES
    entry,          \* the call under way: "main", "create_flexible_map", "functions",
                    \* "palette", "haversine"
    pc,             \* its position: "start", "dist", "bins", "bucketized", "done"
    ring_input,     \* main: the parts of the radii text input
    show_office,    \* main: the checkbox is set and the coordinates are usable
    office_marker,  \* create_flexible_map's office_marker argument
    map_type,       \* "heatmap" or "points"
    max_points,     \* max_points_for_heatmap
    df_index,       \* the DataFrame's row index labels, in row order
    dist_km,        \* the distance array, in row order
    user_radii,     \* main: parse_radii_input(ring_input)
    radii_m,        \* the radii given to make_bins_from_radii
    bins, bucket_idxs, bucket_labels, colors,
    rendered,       \* the markers of the coloured layer, in row order
    bucket_stats,   \* create_flexible_map's second result
    branch,         \* the branch create_flexible_map took
    stats_data,     \* main: the rows of the statistics table
    total_points,   \* main: the "Total Points" metric
    raised,         \* the call ended with an exception
    n_colors,       \* the n of a direct call of make_color_palette
    lat1, lon1,     \* haversine_vectorized: the reference, in degrees
    lat2_arr, lon2_arr,   \* haversine_vectorized: the points, in degrees
    ulp,            \* the last-place errors of this call's sines and cosines
    first,          \* history: the arguments and results of the first call
    calls,          \* history: the number of the call under way
    between         \* history: a call after the first differed from it

inputs == <<entry, ring_input, show_office, map_type, max_points, df_index, dist_km>>
\* the arguments of the direct calls of the other functions
extra == <<n_colors, lat1, lon1, lat2_arr, lon2_arr, ulp, first, calls, between>>
vars == <<entry, pc, ring_input, show_office, office_marker, map_type, max_points,
          df_index, dist_km, user_radii, radii_m, bins, bucket_idxs, bucket_labels,
          colors, rendered, bucket_stats, branch, stats_data, total_points, raised,
          n_colors, lat1, lon1, lat2_arr, lon2_arr, ulp, first, calls, between>>

\* ----------------------------------------------------------------- inputs
Km10 == MetersToKm(10000).v
Km20 == MetersToKm(20000).v
Km30 == MetersToKm(30000).v

\* distances haversine_vectorized returns for valid coordinates
GeoDist == {Fin(0), Fin(Km10 - 1), Fin(Km10), Fin(Km20), Fin(Km30 + 1)}
\* distances a direct caller of bucketize_distances may pass
AnyDist == GeoDist \cup {Fin(-1), NaN}
\* distances of the rows of an uploaded file
FileDist == {Fin(0), Fin(Km10)}

RadiusVals == {0, 10000, 20000}
RadiiLists == UNION {[1..n -> RadiusVals] : n \in 0..MaxRadii}

Tokens ==
    {NumToken(v) : v \in {-1, 0, 1, 3, 5, 10000 * TokenDen}}
    \cup {OtherToken(kd) : kd \in {"empty", "junk", "nan", "inf"}}
\* str.split(",") returns at least one part
TokenLists == UNION {[1..n -> Tokens] : n \in 1..MaxTokens}

\* the default RangeIndex of a DataFrame of n rows
RangeIndex(n) == [i \in 1..n |-> i - 1]
\* row index labels a DataFrame of n rows may carry: the default, one whose
\* first row was dropped, a reversed one, negative labels, repeated labels
IndexLabels(n) ==
    { RangeIndex(n), [i \in 1..n |-> i], [i \in 1..n |-> n - i],
      [i \in 1..n |-> -i], [i \in 1..n |-> -n - i], [i \in 1..n |-> 0] }

Rows(D) == UNION {[1..n -> D] : n \in 0..MaxPts}

\* latitudes and longitudes in degrees; 120 and 240 are out of range
GeoLats == {-60, 0, 60, 120}
GeoLons == {0, 60, 180, 240}
Ulps == [slat : {-1, 0, 1}, slon : {-1, 0, 1}, c1 : {-1, 0, 1}, c2 : {-1, 0, 1}]
NoUlp == [slat |-> 0, slon |-> 0, c1 |-> 0, c2 |-> 0]

NoGeo ==
    /\ lat1 = 0 /\ lon1 = 0 /\ lat2_arr = <<>> /\ lon2_arr = <<>> /\ ulp = NoUlp

\* no direct call of the other functions is under way
Idle == n_colors = 0 /\ NoGeo

\* no call has been made before
NoFirst == [some |-> FALSE]
Fresh == first = NoFirst /\ calls = 1 /\ between = FALSE

Blank ==
    /\ pc = "start"
    /\ user_radii = <<>> /\ radii_m = <<>>
    /\ bins = <<>> /\ bucket_idxs = <<>> /\ bucket_labels = <<>> /\ colors = <<>>
    /\ rendered = <<>> /\ bucket_stats = NoStats /\ branch = "none"
    /\ stats_data = <<>> /\ total_points = 0 /\ raised = FALSE
    /\ Fresh

\* one rerun of the Streamlit script
InitMain ==
    /\ entry = "main"
    /\ ring_input \in TokenLists
    /\ show_office \in BOOLEAN
    /\ map_type \in {"heatmap", "points"}
    /\ max_points = 800
    /\ dist_km \in Rows(FileDist)
    /\ df_index = RangeIndex(Len(dist_km))
    /\ office_marker = NoOffice
    /\ Blank /\ Idle

\* a direct call of create_flexible_map
InitMap ==
    /\ entry = "create_flexible_map"
    /\ ring_input = <<>> /\ show_office = FALSE
    /\ office_marker \in {NoOffice, OfficeNoRadii} \cup {Office(r) : r \in RadiiLists}
    /\ map_type \in {"heatmap", "points"}
    /\ max_points \in {1, 800}
    /\ dist_km \in Rows(GeoDist)
    /\ df_index \in IndexLabels(Len(dist_km))
    /\ Blank /\ Idle

\* direct calls of make_bins_from_radii, bucketize_distances and
\* add_colored_points_layer, one after the other
InitFunctions ==
    /\ entry = "functions"
    /\ ring_input = <<>> /\ show_office = FALSE
    /\ office_marker \in {Office(r) : r \in RadiiLists}
    /\ map_type = "points"
    /\ max_points = 800
    /\ dist_km \in Rows(AnyDist)
    /\ df_index \in IndexLabels(Len(dist_km))
    /\ Blank /\ Idle

\* a direct call of make_color_palette
InitPalette ==
    /\ entry = "palette"
    /\ n_colors \in 0..MaxColors
    /\ ring_input = <<>> /\ show_office = FALSE /\ office_marker = NoOffice
    /\ map_type = "points" /\ max_points = 800
    /\ dist_km = <<>> /\ df_index = <<>>
    /\ Blank /\ NoGeo

\* a direct call of haversine_vectorized, then of the functions that band
\* its distances, as in create_flexible_map (lines 460-467)
InitHaversine ==
    /\ entry = "haversine"
    /\ lat1 \in GeoLats /\ lon1 \in {0, 180}
    /\ \E n \in 0..MaxGeoPts :
         /\ lat2_arr \in [1..n -> GeoLats]
         /\ lon2_arr \in [1..n -> GeoLons]
         /\ df_index = RangeIndex(n)
    /\ ulp \in Ulps
    /\ n_colors = 0
    /\ ring_input = <<>> /\ show_office = FALSE
    /\ office_marker = Office(DefaultRadii)
    /\ map_type = "points" /\ max_points = 800
    /\ dist_km = <<>>
    /\ Blank

Init == InitMain \/ InitMap \/ InitFunctions \/ InitPalette \/ InitHaversine

\* ---------------------------------------------------------------- actions
\* the functions are called one after the other, outside create_flexible_map
Direct == entry \in {"functions", "haversine"}

SetPass(p) ==
    /\ radii_m' = p.radii_m
    /\ bins' = p.bins
    /\ bucket_idxs' = p.bucket_idxs
    /\ bucket_labels' = p.bucket_labels
    /\ colors' = p.colors
    /\ rendered' = p.rendered
    /\ bucket_stats' = p.bucket_stats
    /\ branch' = p.branch
    /\ raised' = p.raised

\* variant: the counts are kept in a dictionary that outlives the call
CreateFlexibleMap_Accumulate ==
    /\ entry = "create_flexible_map" /\ pc = "start"
    /\ LET p == create_flexible_map(df_index, dist_km, office_marker, map_type, max_points)
           kept == /\ first.some /\ first.bucket_stats.some /\ p.bucket_stats.some
                   /\ DOMAIN first.bucket_stats.counts = DOMAIN p.bucket_stats.counts
       IN  SetPass(IF kept
                   THEN [p EXCEPT !.bucket_stats.counts =
                            [i \in DOMAIN @ |-> @[i] + first.bucket_stats.counts[i]]]
                   ELSE p)
    /\ pc' = "done"
    /\ UNCHANGED <<inputs, extra, office_marker, user_radii, stats_data, total_points>>

CreateFlexibleMap ==
    /\ entry = "create_flexible_map" /\ pc = "start"
    /\ SetPass(create_flexible_map(df_index, dist_km, office_marker, map_type, max_points))
    /\ pc' = "done"
    /\ UNCHANGED <<inputs, extra, office_marker, user_radii, stats_data, total_points>>

\* main(): lines 633-635, 679-702 and 705-739
Main ==
    /\ entry = "main" /\ pc = "start"
    /\ LET ur == parse_radii_input(ring_input)
           om == IF show_office THEN Office(ur) ELSE NoOffice
           called == Len(df_index) > 0 \/ om.present
           p == IF called
                THEN create_flexible_map(df_index, dist_km, om, map_type, max_points)
                ELSE NoPass
           rows == IF p.bucket_stats.some THEN StatsRows(p.bucket_stats) ELSE <<>>
       IN  /\ user_radii' = ur
           /\ office_marker' = om
           /\ SetPass(p)
           /\ stats_data' = rows
           /\ total_points' = SumCounts(rows)
    /\ pc' = "done"
    /\ UNCHANGED <<inputs, extra>>

HaversineVectorized ==
    /\ entry = "haversine" /\ pc = "start"
    /\ dist_km' = haversine_vectorized(lat1, lon1, lat2_arr, lon2_arr, ulp)
    /\ pc' = "dist"
    /\ UNCHANGED <<entry, ring_input, show_office, map_type, max_points, df_index,
                   extra, office_marker, user_radii, radii_m, bins, bucket_idxs,
                   bucket_labels, colors, rendered, bucket_stats, branch,
                   stats_data, total_points, raised>>

MakeBinsFromRadii ==
    /\ \/ entry = "functions" /\ pc = "start"
       \/ entry = "haversine" /\ pc = "dist"
    /\ radii_m' = office_marker.radii
    /\ bins' = make_bins_from_radii(office_marker.radii)
    /\ pc' = "bins"
    /\ UNCHANGED <<inputs, extra, office_marker, user_radii, bucket_idxs, bucket_labels,
                   colors, rendered, bucket_stats, branch, stats_data, total_points,
                   raised>>

BucketizeDistances ==
    /\ Direct /\ pc = "bins"
    /\ bucket_idxs' = bucketize_distances(dist_km, bins)
    /\ pc' = "bucketized"
    /\ UNCHANGED <<inputs, extra, office_marker, user_radii, radii_m, bins, bucket_labels,
                   colors, rendered, bucket_stats, branch, stats_data, total_points,
                   raised>>

AddColoredPointsLayer ==
    /\ Direct /\ pc = "bucketized"
    /\ LET lb == bucket_labels_from_bins(bins)
           cl == make_color_palette(Len(bins))
       IN  /\ bucket_labels' = lb
           /\ colors' = cl
           /\ IF LayerRaises(df_index, bucket_idxs)
              THEN /\ raised' = TRUE
                   /\ UNCHANGED <<rendered, bucket_stats>>
              ELSE /\ raised' = FALSE
                   /\ rendered' = LayerMarkers(df_index, cl, bucket_idxs, lb)
                   /\ bucket_stats' = [ some |-> TRUE, labels |-> lb, colors |-> cl,
                                        counts |-> BucketCounts(bucket_idxs, lb) ]
    /\ pc' = "done"
    /\ UNCHANGED <<inputs, extra, office_marker, user_radii, radii_m, bins, bucket_idxs,
                   branch, stats_data, total_points>>

MakeColorPalette ==
    /\ entry = "palette" /\ pc = "start"
    /\ colors' = make_color_palette(n_colors)
    /\ pc' = "done"
    /\ UNCHANGED <<inputs, extra, office_marker, user_radii, radii_m, bins,
                   bucket_idxs, bucket_labels, rendered, bucket_stats, branch,
                   stats_data, total_points, raised>>

Next ==
    \/ Main
    \/ CreateFlexibleMap
    \/ MakeBinsFromRadii
    \/ BucketizeDistances
    \/ AddColoredPointsLayer
    \/ MakeColorPalette
    \/ HaversineVectorized

Spec == Init /\ [][Next]_vars

\* ============================================================ properties
\* bucket_idxs holds the result of bucketize_distances(dist_km, bins)
Classified ==
    \/ branch = "points_colored"
    \/ Direct /\ pc \in {"bucketized", "done"}

\* bins holds the result of make_bins_from_radii(radii_m)
Binned == Classified \/ (Direct /\ pc = "bins")

NonNegFinite(d) == d.k = "fin" /\ d.v >= 0

\* ------------------------------------------------ calls one after the other
\* Every call starts with fresh locals: the functions keep nothing in module
\* variables, default arguments or caches, and create_flexible_map copies the
\* DataFrame before it adds the distance column (line 468).

\* the arguments of the call under way
Args ==
    [ entry |-> entry, ring_input |-> ring_input, show_office |-> show_office,
      office_marker |-> IF entry = "main" THEN NoOffice ELSE office_marker,
      map_type |-> map_type, max_points |-> max_points, df_index |-> df_index,
      dist_km |-> IF entry = "haversine" THEN <<>> ELSE dist_km,
      lat1 |-> lat1, lon1 |-> lon1, lat2_arr |-> lat2_arr, lon2_arr |-> lon2_arr,
      ulp |-> ulp ]

\* the arguments and the results of the call that has just ended
Snapshot ==
    [ some |-> TRUE, args |-> Args, classified |-> Classified,
      dist_km |-> dist_km, radii_m |-> radii_m, bins |-> bins,
      bucket_idxs |-> bucket_idxs, bucket_labels |-> bucket_labels,
      colors |-> colors, rendered |-> rendered, bucket_stats |-> bucket_stats,
      branch |-> branch, stats_data |-> stats_data, total_points |-> total_points,
      raised |-> raised ]

PassRows == {<<>>, <<Fin(Km10)>>, <<Fin(Km10), Fin(Km20)>>}
PassRadii == UNION {[1..n -> {10000, 20000}] : n \in 0..MaxRadii}
PassTokenLists == {<<>>, <<NumToken(10000 * TokenDen)>>}
AllLow == [slat |-> -1, slon |-> -1, c1 |-> -1, c2 |-> -1]

PlainArgs(e, ri, so, om, d) ==
    [ entry |-> e, ring_input |-> ri, show_office |-> so, office_marker |-> om,
      map_type |-> "points", max_points |-> 800,
      df_index |-> RangeIndex(Len(d)), dist_km |-> d,
      lat1 |-> 0, lon1 |-> 0, lat2_arr |-> <<>>, lon2_arr |-> <<>>, ulp |-> NoUlp ]

MainArgs ==
    {PlainArgs("main", ri, so, NoOffice, d) :
        ri \in PassTokenLists, so \in BOOLEAN, d \in PassRows}

MapArgs ==
    {PlainArgs("create_flexible_map", <<>>, FALSE, Office(r), d) :
        r \in PassRadii, d \in PassRows}

FunctionArgs ==
    {PlainArgs("functions", <<>>, FALSE, Office(r), d) :
        r \in PassRadii, d \in PassRows}

HaversineArgs ==
    {[PlainArgs("haversine", <<>>, FALSE, Office(DefaultRadii), <<>>) EXCEPT
        !.df_index = RangeIndex(1), !.lat1 = 60,
        !.lat2_arr = <<pt[1]>>, !.lon2_arr = <<pt[2]>>, !.ulp = u] :
        pt \in {<<60, 0>>, <<120, 180>>, <<0, 60>>}, u \in {AllLow}}

PassArgs == MainArgs \cup MapArgs \cup FunctionArgs \cup HaversineArgs

\* the call under way is given the arguments a
Called(a) ==
    /\ entry = a.entry /\ ring_input = a.ring_input /\ show_office = a.show_office
    /\ office_marker = a.office_marker /\ map_type = a.map_type
    /\ max_points = a.max_points /\ df_index = a.df_index /\ dist_km = a.dist_km
    /\ lat1 = a.lat1 /\ lon1 = a.lon1 /\ lat2_arr = a.lat2_arr
    /\ lon2_arr = a.lon2_arr /\ ulp = a.ulp

\* the next call is given the arguments a
Calling(a) ==
    /\ entry' = a.entry /\ ring_input' = a.ring_input /\ show_office' = a.show_office
    /\ office_marker' = a.office_marker /\ map_type' = a.map_type
    /\ max_points' = a.max_points /\ df_index' = a.df_index /\ dist_km' = a.dist_km
    /\ lat1' = a.lat1 /\ lon1' = a.lon1 /\ lat2_arr' = a.lat2_arr
    /\ lon2_arr' = a.lon2_arr /\ ulp' = a.ulp

InitPasses ==
    /\ \E a \in PassArgs : Called(a)
    /\ n_colors = 0
    /\ Blank

\* the call has returned and the next one begins
NextCall ==
    /\ pc = "done" /\ calls < MaxCalls
    /\ first' = IF calls = 1 THEN Snapshot ELSE first
    /\ between' = (between \/ (calls > 1 /\ Args # first.args))
    /\ calls' = calls + 1
    /\ \E a \in PassArgs : Calling(a)
    /\ pc' = "start"
    /\ user_radii' = <<>> /\ radii_m' = <<>>
    /\ bins' = <<>> /\ bucket_idxs' = <<>> /\ bucket_labels' = <<>> /\ colors' = <<>>
    /\ rendered' = <<>> /\ bucket_stats' = NoStats /\ branch' = "none"
    /\ stats_data' = <<>> /\ total_points' = 0 /\ raised' = FALSE
    /\ UNCHANGED n_colors

NextPasses ==
    \/ Main
    \/ CreateFlexibleMap
    \/ MakeBinsFromRadii
    \/ BucketizeDistances
    \/ AddColoredPointsLayer
    \/ HaversineVectorized
    \/ NextCall

SpecPasses == InitPasses /\ [][NextPasses]_vars

\* a RadiusSet: non-negative thresholds, sorted ascending, no duplicates
IsRadiusSet(r) ==
    /\ \A i \in 1..Len(r) : r[i] >= 0
    /\ \A i \in 1..(Len(r) - 1) : r[i] < r[i + 1]

RECURSIVE SumOver(_, _)
\* the sum of f over the finite set D of its domain
SumOver(f, D) ==
    IF D = {} THEN 0
    ELSE LET x == CHOOSE y \in D : TRUE
         IN  f[x] + SumOver(f, D \ {x})

\* the number of radii of the list r whose threshold, in km, is <= d
ThresholdsAtOrBelow(d, r) ==
    Cardinality({i \in 1..Len(r) : (r[i] * UnitsPerKm) \div 1000 <= d.v})

\* C1: partition completeness. For a non-empty RadiusSet and non-negative
\* finite distances, every distance gets exactly one band index in
\* 0..len(bins)-1, never the sentinel, and the per-band counts sum to the
\* number of points.
C1_PartitionComplete ==
    (/\ Classified
     /\ radii_m # <<>> /\ IsRadiusSet(radii_m)
     /\ \A j \in 1..Len(dist_km) : NonNegFinite(dist_km[j]))
    => /\ Len(bucket_idxs) = Len(dist_km)
       /\ \A j \in 1..Len(bucket_idxs) :
            bucket_idxs[j] \in 0..(Len(bins) - 1)
       /\ bucket_stats.some =>
            SumOver(bucket_stats.counts, DOMAIN bucket_stats.counts) = Len(dist_km)

C1_Witness ==
    /\ Classified /\ bucket_stats.some
    /\ Len(radii_m) >= 2 /\ IsRadiusSet(radii_m)
    /\ Len(dist_km) >= 2
    /\ \A j \in 1..Len(dist_km) : NonNegFinite(dist_km[j])
    /\ bucket_idxs[1] # bucket_idxs[2]
    /\ \E j \in 1..Len(dist_km) : bucket_idxs[j] = Len(bins) - 1

\* C2: boundary tie-break. A non-negative distance gets the band index equal
\* to the number of thresholds <= it, so a distance equal to a threshold goes
\* to the band above; 10.0 km under radii 10000, 20000, 30000 gets band 1.
C2_BoundaryTieBreak ==
    Classified =>
        \A j \in 1..Len(dist_km) :
            /\ NonNegFinite(dist_km[j]) =>
                 bucket_idxs[j] = ThresholdsAtOrBelow(dist_km[j], radii_m)
            /\ (radii_m = <<10000, 20000, 30000>> /\ dist_km[j] = Fin(10 * UnitsPerKm))
                 => bucket_idxs[j] = 1

C2_Witness ==
    /\ Classified
    /\ radii_m = <<10000, 20000, 30000>>
    /\ \E j \in 1..Len(dist_km) :
         dist_km[j] = Fin(10 * UnitsPerKm) /\ bucket_idxs[j] = 1

\* C3: band structure. For any list of non-negative radii, in any order,
\* band 0 starts at 0, every band starts where the previous one ends, every
\* band has low <= high, and only the last band's high bound is +infinity.
C3_BandStructure ==
    Binned =>
        /\ Len(bins) >= 1
        /\ bins[1][1] = Fin(0)
        /\ \A i \in 2..Len(bins) : bins[i][1] = bins[i - 1][2]
        /\ \A i \in 1..Len(bins) : FGe(bins[i][2], bins[i][1])
        /\ \A i \in 1..Len(bins) : (bins[i][2] = PosInf) <=> (i = Len(bins))

C3_Witness ==
    /\ Binned
    /\ Len(radii_m) >= 2
    /\ radii_m[1] > radii_m[2]
    /\ Len(bins) = Len(radii_m) + 1

\* the number of markers drawn with band i's index
MarkersOfBand(i) == Cardinality({r \in 1..Len(rendered) : rendered[r].bidx = i})

\* C4: visual/statistics consistency. In one pass of create_flexible_map, for
\* any DataFrame, every point's marker uses the band index bucketize_distances
\* assigned to that point's distance, and the number of markers of band i
\* equals counts[i].
C4_VisualStatsConsistent ==
    (entry = "create_flexible_map" /\ pc = "done"
        /\ branch = "points_colored" /\ ~raised)
    => /\ Len(rendered) = Len(bucket_idxs)
       /\ \A r \in 1..Len(rendered) : rendered[r].bidx = bucket_idxs[r]
       /\ \A i \in DOMAIN bucket_stats.counts :
            MarkersOfBand(i) = bucket_stats.counts[i]

\* the points whose band index is not the sentinel
Assigned == {j \in 1..Len(bucket_idxs) : bucket_idxs[j] # Sentinel}

\* C5: tally completeness. The counts have a key for every band index
\* 0..n-1, bands with count 0 included, and they sum to the number of points
\* whose assignment is not the sentinel; main's table has one row per band
\* and its total is that sum.
C5_TallyComplete ==
    bucket_stats.some =>
        /\ DOMAIN bucket_stats.counts = 0..(Len(bins) - 1)
        /\ SumOver(bucket_stats.counts, DOMAIN bucket_stats.counts)
             = Cardinality(Assigned)
        /\ (entry = "main" /\ pc = "done") =>
             /\ Len(stats_data) = Len(bins)
             /\ \A i \in 1..Len(stats_data) :
                  stats_data[i].count = bucket_stats.counts[i - 1]
             /\ total_points = Cardinality(Assigned)

C5_Witness ==
    /\ bucket_stats.some
    /\ \E i \in DOMAIN bucket_stats.counts : bucket_stats.counts[i] = 0
    /\ \E i \in DOMAIN bucket_stats.counts : bucket_stats.counts[i] > 0
    /\ Cardinality(Assigned) < Len(bucket_idxs)

Degenerate(d) == d.k = "nan" \/ (d.k = "fin" /\ d.v < 0)

\* C6: degenerate distances. A negative or NaN distance gets the sentinel
\* without an exception, every other distance of the array still gets its
\* band, a marker whose band index is the sentinel has the fallback colour
\* and range N/A, and the sentinel is counted in no band.
C6_DegenerateDistance ==
    Classified =>
        /\ (entry = "functions" /\ pc = "bucketized") => ~raised
        /\ \A j \in 1..Len(dist_km) :
             IF Degenerate(dist_km[j])
             THEN bucket_idxs[j] = Sentinel
             ELSE bucket_idxs[j] = ThresholdsAtOrBelow(dist_km[j], radii_m)
        /\ \A r \in 1..Len(rendered) :
             /\ rendered[r].bidx = Sentinel =>
                  rendered[r].fill_color = FallbackColor /\ rendered[r].na
             /\ (df_index = RangeIndex(Len(dist_km)) /\ Degenerate(dist_km[r])) =>
                  rendered[r].fill_color = FallbackColor /\ rendered[r].na
        /\ bucket_stats.some =>
             \A i \in DOMAIN bucket_stats.counts :
                bucket_stats.counts[i] =
                    Cardinality({j \in 1..Len(dist_km) :
                        ~Degenerate(dist_km[j]) /\ bucket_idxs[j] = i})

C6_Witness ==
    /\ entry = "functions" /\ pc = "done" /\ bucket_stats.some
    /\ Len(dist_km) >= 2
    /\ df_index = RangeIndex(Len(dist_km))
    /\ Degenerate(dist_km[1]) /\ ~Degenerate(dist_km[2])
    /\ rendered[1].fill_color = FallbackColor /\ rendered[1].na
    /\ rendered[2].fill_color # FallbackColor /\ ~rendered[2].na

\* C7: boundary construction deduplicates. For any radii list, the number of
\* bands is the number of distinct radius values plus one.
C7_DedupBands ==
    (Binned /\ ~raised) => Len(bins) = Cardinality(Range(radii_m)) + 1

\* C8: empty point set. Classifying zero points with an office marker and
\* map type "points" returns the full band labels and colours (number of
\* radii + 1) and a count of 0 for every band.
C8_EmptyPointSet ==
    (entry = "create_flexible_map" /\ pc = "done"
        /\ Len(df_index) = 0 /\ office_marker.present /\ map_type = "points")
    => /\ ~raised
       /\ bucket_stats.some
       /\ Len(bucket_stats.labels) = Len(OfficeRadii(office_marker)) + 1
       /\ Len(bucket_stats.colors) = Len(bucket_stats.labels)
       /\ \A i \in 0..(Len(bucket_stats.labels) - 1) :
            i \in DOMAIN bucket_stats.counts /\ bucket_stats.counts[i] = 0

\* float(p) is a finite value >= 0
ValidToken(p) == p.k = "num" /\ p.v >= 0

\* n is round(v/den): the nearest integer, the even one on a tie
IsRoundOf(n, v, den) ==
    LET twice == IF v >= n * den THEN 2 * (v - n * den) ELSE 2 * (n * den - v)
    IN  twice < den \/ (twice = den /\ n % 2 = 0)

ValidParts == {i \in 1..Len(ring_input) : ValidToken(ring_input[i])}

\* C9: radii parsing fallback. parse_radii_input returns the default radii
\* when the input yields no valid token; with at least one valid token it
\* returns the rounded values of the valid tokens and no other; it never
\* raises.
C9_ParseFallback ==
    (entry = "main" /\ pc = "done") =>
        /\ ~raised
        /\ ValidParts = {} => user_radii = <<10000, 20000, 30000>>
        /\ ValidParts # {} =>
             /\ \A i \in ValidParts : \E k \in 1..Len(user_radii) :
                  IsRoundOf(user_radii[k], ring_input[i].v, TokenDen)
             /\ \A k \in 1..Len(user_radii) : \E i \in ValidParts :
                  IsRoundOf(user_radii[k], ring_input[i].v, TokenDen)

C9_Witness ==
    /\ entry = "main" /\ pc = "done"
    /\ ValidParts # {}
    /\ ValidParts # 1..Len(ring_input)
    /\ user_radii # <<10000, 20000, 30000>>

\* C10: the parser's RadiusSet invariant. The list parse_radii_input returns
\* is non-empty, strictly ascending and holds only integers >= 0, also when
\* distinct tokens round to the same integer.
C10_ParserRadiusSet ==
    (entry = "main" /\ pc = "done") =>
        /\ user_radii # <<>>
        /\ \A k \in 1..Len(user_radii) : user_radii[k] \in Nat
        /\ \A k \in 1..(Len(user_radii) - 1) : user_radii[k] < user_radii[k + 1]

C10_Witness ==
    /\ entry = "main" /\ pc = "done"
    /\ Len(ring_input) >= 2
    /\ ValidToken(ring_input[1]) /\ ValidToken(ring_input[2])
    /\ ring_input[1] # ring_input[2]
    /\ Len(user_radii) = 1

\* C11: with an office marker and map type "points", create_flexible_map
\* colours every non-empty point set by distance band, whatever its size, and
\* returns the band statistics as its second result.
C11_ColoredWheneverOfficeAndPoints ==
    (entry = "create_flexible_map" /\ pc = "done"
        /\ Len(df_index) > 0 /\ df_index = RangeIndex(Len(df_index))
        /\ office_marker.present /\ map_type = "points")
    => branch = "points_colored" /\ bucket_stats.some

\* C13: palette cycling. For every n >= 0, make_color_palette(n) returns
\* exactly n colours, the i-th being entry (i mod 10) of the 10-colour base
\* palette, so the colours of a classification are as many as its labels and
\* matched to them by position.
C13_PaletteCycles ==
    /\ (entry = "palette" /\ pc = "done") =>
         /\ Len(BasePalette) = 10
         /\ Len(colors) = n_colors
         /\ \A i \in 0..(n_colors - 1) : colors[i + 1] = BasePalette[(i % 10) + 1]
    /\ bucket_stats.some =>
         /\ Len(bucket_stats.colors) = Len(bucket_stats.labels)
         /\ \A i \in 0..(Len(bucket_stats.labels) - 1) :
              bucket_stats.colors[i + 1] = BasePalette[(i % 10) + 1]

C13_Witness ==
    /\ entry = "palette" /\ pc = "done"
    /\ n_colors > 10
    /\ colors[11] = colors[1]
    /\ colors[10] # colors[1]

\* the points of the haversine call that are the reference itself
SamePoint(j) == lat2_arr[j] = lat1 /\ lon2_arr[j] = lon1

\* latitudes within [-90, 90]
LatInRange(x) == -90 <= x /\ x <= 90

\* C15: haversine_vectorized returns, for every reference and point
\* coordinates, out-of-range latitudes and longitudes included, a distance
\* that is >= 0 and not NaN, and 0 for a point equal to the reference; so no
\* computed distance is mapped to the sentinel.
C15_DistanceNonNegative ==
    (entry = "haversine" /\ pc # "start") =>
        /\ Len(dist_km) = Len(lat2_arr)
        /\ \A j \in 1..Len(dist_km) :
             /\ NonNegFinite(dist_km[j])
             /\ SamePoint(j) => dist_km[j] = Fin(0)
             /\ Classified => bucket_idxs[j] # Sentinel

\* the same for latitudes within [-90, 90], any longitude
HaversineInRange ==
    (entry = "haversine" /\ pc # "start" /\ LatInRange(lat1)
        /\ \A j \in 1..Len(lat2_arr) : LatInRange(lat2_arr[j]))
    => /\ Len(dist_km) = Len(lat2_arr)
       /\ \A j \in 1..Len(dist_km) :
            /\ NonNegFinite(dist_km[j])
            /\ SamePoint(j) => dist_km[j] = Fin(0)
            /\ Classified => bucket_idxs[j] # Sentinel

\* the number of times v occurs in the list s
CountOf(v, s) == Cardinality({i \in 1..Len(s) : s[i] = v})

\* q is p with radii added
AddsRadii(p, q) == \A v \in Range(p) : CountOf(v, p) <= CountOf(v, q)

\* q is p with one smallest radius increased, the others unchanged
WidensSmallest(p, q) ==
    /\ Len(p) = Len(q)
    /\ \E i \in 1..Len(p) :
         /\ \A k \in 1..Len(p) : p[i] <= p[k]
         /\ q[i] > p[i]
         /\ \A k \in 1..Len(p) : k # i => q[k] = p[k]

\* the first call and the one that has just ended banded the same distances
SameDistances ==
    /\ first.some /\ pc = "done"
    /\ first.classified /\ Classified
    /\ first.dist_km = dist_km

\* C12: monotonicity. For a fixed distance array, adding radii never
\* decreases the number of bands, and increasing the smallest radius while
\* the other radii stay unchanged never moves a point to a higher band index.
C12_Monotone ==
    SameDistances =>
        /\ AddsRadii(first.radii_m, radii_m) => Len(bins) >= Len(first.bins)
        /\ WidensSmallest(first.radii_m, radii_m) =>
             \A j \in 1..Len(dist_km) : bucket_idxs[j] <= first.bucket_idxs[j]

C12_Witness ==
    /\ SameDistances
    /\ WidensSmallest(first.radii_m, radii_m)
    /\ Len(radii_m) = 2
    /\ \E j \in 1..Len(dist_km) : bucket_idxs[j] < first.bucket_idxs[j]
    /\ \E j \in 1..Len(dist_km) : bucket_idxs[j] = first.bucket_idxs[j]

====
